---- MODULE Spec2Model ----
(***************************************************************************)
(* jargs.hpp -- command line argument parser.                              *)
(*                                                                         *)
(* A model of jargs::Flag, jargs::Parser::add, add_help, parse and         *)
(* print_help_page.  Strings (std::string_view and C strings) are          *)
(* sequences of one-character strings; the output streams are character    *)
(* sequences with "\n" as the newline character.                           *)
(***************************************************************************)
EXTENDS Integers, Sequences, FiniteSets, TLC

VARIABLES
    flags,      \* Parser::flags, the std::vector<Flag>
    pc,         \* "build" | "loop" | "short" | "returned" | "exited"
    argc,       \* parse's argc
    argv,       \* parse's argv; argv[k] of the code is argv[k+1] here
    i,          \* index of the outer loop of parse
    j,          \* index of the inner loop of parse (short option token)
    calls,      \* history of the invocations of Flag::action, in order
    reads,      \* history of the accesses to argv, in order
    out,        \* std::cout
    err,        \* std::cerr
    status      \* exit status of the process once pc = "exited"

vars == <<flags, pc, argc, argv, i, j, calls, reads, out, err, status>>

(***************************************************************************)
(* Bounds of the model.                                                    *)
(***************************************************************************)
MaxFlags == 2       \* number of calls of add / add_help before parse
MaxArgs == 2        \* number of arguments after the program name

(***************************************************************************)
(* Characters and strings.                                                 *)
(***************************************************************************)
NUL == "NUL"        \* the character '\0'
NL == "\n"
npos == 2147483647  \* std::string_view::npos, the largest size_t

Min(a, b) == IF a < b THEN a ELSE b

Spaces(n) == [k \in 1..n |-> " "]

\* std::string_view::starts_with
starts_with(s, p) == Len(s) >= Len(p) /\ SubSeq(s, 1, Len(p)) = p

\* std::string_view::find(char): position (from 0) of the first c, or npos
find(s, c) ==
    IF \E k \in 1..Len(s) : s[k] = c
    THEN (CHOOSE k \in 1..Len(s) : s[k] = c /\ \A m \in 1..(k-1) : s[m] # c) - 1
    ELSE npos

\* std::string_view::contains(char)
contains(s, c) == \E k \in 1..Len(s) : s[k] = c

\* std::string_view::substr(pos, count), for pos <= size: count is clipped
substr(s, pos, count) == SubSeq(s, pos + 1, pos + Min(count, Len(s) - pos))

(***************************************************************************)
(* struct Flag and its six constructors.  The std::function is modelled    *)
(* by what calling it does: a user function only leaves a record in        *)
(* calls; the closure of add_help prints the help page and exits.          *)
(***************************************************************************)
UserAction == [kind |-> "user", usage |-> <<>>]
HelpAction(usage) == [kind |-> "help", usage |-> usage]

\* With arg: short, long
FlagArg(c, s, desc, f) ==
    [short_name |-> c, long_name |-> s, description |-> desc,
     expects_value |-> TRUE, action |-> f]
\* With arg: long
FlagArgLong(s, desc, f) == FlagArg(NUL, s, desc, f)
\* With arg: short
FlagArgShort(c, desc, f) == FlagArg(c, <<>>, desc, f)

\* Without arg: short, long
FlagNoArg(c, s, desc, f) ==
    [short_name |-> c, long_name |-> s, description |-> desc,
     expects_value |-> FALSE, action |-> f]
\* Without arg: long
FlagNoArgLong(s, desc, f) == FlagNoArg(NUL, s, desc, f)
\* Without arg: short
FlagNoArgShort(c, desc, f) == FlagNoArg(c, <<>>, desc, f)

(***************************************************************************)
(* Inputs: the flags a caller registers, the usage texts, the arguments.   *)
(***************************************************************************)
Desc == <<"d">>

\* a long name of 28 characters: "  --" and the name fill the 32 columns of
\* the help page exactly; with a short name or " ARG" the column overflows
LongName == [k \in 1..28 |-> "w"]

FlagPool ==
    { FlagNoArgLong(LongName, Desc, UserAction),
      FlagArg("a", LongName, Desc, UserAction),
      FlagNoArgShort("b", Desc, UserAction),
      FlagNoArg("h", <<"h", "e", "l", "p">>, Desc, UserAction) }

Usages == { <<"u">> }

ProgNames == { <<"p">> }

Tokens ==
    { <<>>,
      <<"-">>,
      <<"-", "-">>,
      <<"v">>,
      <<"-", "=">>,
      <<"-", "a">>,
      <<"-", "b", "a">>,
      <<"-", "a", "-", "=">>,
      <<"-", "h", "b">>,
      <<"-", "-", "=", "v">>,
      <<"-", "-">> \o LongName,
      <<"-", "-">> \o LongName \o <<"=">>,
      <<"-", "-">> \o LongName \o <<"=", "-", "=">> }

RECURSIVE SeqsUpTo(_, _)
SeqsUpTo(S, n) ==
    IF n = 0 THEN { <<>> }
    ELSE LET shorter == SeqsUpTo(S, n - 1)
         IN shorter \cup { Append(s, x) : s \in shorter, x \in S }

ArgLists == { <<p>> \o rest : p \in ProgNames, rest \in SeqsUpTo(Tokens, MaxArgs) }

(***************************************************************************)
(* Parser::print_help_page                                                 *)
(***************************************************************************)
lhs_max == 32

\* the std::stringstream lhs of one flag
lhs_of(f) ==
    <<" ", " ">>
    \o (IF f.short_name # NUL THEN <<"-", f.short_name>> ELSE <<>>)
    \o (IF f.short_name # NUL /\ f.long_name # <<>> THEN <<",", " ">> ELSE <<>>)
    \o (IF Len(f.long_name) # 0 THEN <<"-", "-">> \o f.long_name ELSE <<>>)
    \o (IF f.expects_value THEN <<" ", "A", "R", "G">> ELSE <<>>)

\* help_entry with the test lhs.str().size() < lhs_max
help_entry_strict(f) ==
    LET lhs == lhs_of(f)
    IN IF Len(lhs) < lhs_max
       THEN lhs \o Spaces(lhs_max - Len(lhs)) \o <<" ">> \o f.description \o <<NL>>
       ELSE lhs \o <<NL>> \o Spaces(lhs_max) \o <<" ">> \o f.description \o <<NL>>

\* what the body of the loop over flags writes to std::cout for one flag
help_entry(f) ==
    LET lhs == lhs_of(f)
    IN IF Len(lhs) <= lhs_max
       THEN lhs \o Spaces(lhs_max - Len(lhs)) \o <<" ">> \o f.description \o <<NL>>
       ELSE lhs \o <<NL>> \o Spaces(lhs_max) \o <<" ">> \o f.description \o <<NL>>

RECURSIVE help_entries(_)
help_entries(fs) ==
    IF fs = <<>> THEN <<>> ELSE help_entry(Head(fs)) \o help_entries(Tail(fs))

print_help_page(usage) ==
    <<"U", "s", "a", "g", "e", ":", " ">> \o usage \o <<NL>> \o help_entries(flags)

(***************************************************************************)
(* Helpers of Parser::parse                                                *)
(***************************************************************************)
\* argv[k]; argv[argc] is the null pointer that ends the array, read here as
\* an empty string (parse never reads it)
Argv(k) == IF k + 1 \in DOMAIN argv THEN argv[k + 1] ELSE <<>>

\* flags.end()
End == Len(flags) + 1

\* std::find_if over flags with f.long_name == flag
find_if_long(flag) ==
    IF \E k \in 1..Len(flags) : flags[k].long_name = flag
    THEN CHOOSE k \in 1..Len(flags) :
            /\ flags[k].long_name = flag
            /\ \A m \in 1..(k-1) : flags[m].long_name # flag
    ELSE End

\* find_if_short finding the last match instead of the first
find_if_short_last(c) ==
    IF \E k \in 1..Len(flags) : flags[k].short_name = c
    THEN CHOOSE k \in 1..Len(flags) :
            /\ flags[k].short_name = c
            /\ \A m \in (k+1)..Len(flags) : flags[m].short_name # c
    ELSE End

\* std::find_if over flags with f.short_name == c
find_if_short(c) ==
    IF \E k \in 1..Len(flags) : flags[k].short_name = c
    THEN CHOOSE k \in 1..Len(flags) :
            /\ flags[k].short_name = c
            /\ \A m \in 1..(k-1) : flags[m].short_name # c
    ELSE End

\* the two tests of the if / else if of the outer loop
is_long_token(arg) == Len(arg) >= 3 /\ starts_with(arg, <<"-", "-">>)
is_short_token(arg) == ~is_long_token(arg) /\ Len(arg) >= 2 /\ starts_with(arg, <<"-">>)

\* auto flag = arg.substr(2, arg.find('=')-2);
long_flag(arg) == substr(arg, 2, find(arg, "=") - 2)

\* long_optarg starting at the '=' instead of after it
long_optarg_from_eq(arg) == substr(arg, find(arg, "="), npos)

\* auto optarg = arg.substr(arg.find('=')+1);
long_optarg(arg) == substr(arg, find(arg, "=") + 1, npos)

\* no_optarg without the test of the size
no_optarg_unchecked(optarg) == FALSE

\* optarg.size() == 0
no_optarg(optarg) == Len(optarg) = 0

\* at_last_arg off by one: i == argc
at_last_arg_off_by_one == i = argc

\* i == argc-1
at_last_arg == i = argc - 1

\* the diagnostics written to std::cerr
unknown_long(flag) ==
    Argv(0) \o <<":", " ", "u", "n", "k", "n", "o", "w", "n", " ", "o", "p", "t",
                 "i", "o", "n", ":", " ", "'", "-", "-">> \o flag \o <<"'", NL>>
unknown_short(c) ==
    Argv(0) \o <<":", " ", "u", "n", "k", "n", "o", "w", "n", " ", "o", "p", "t",
                 "i", "o", "n", ":", " ", "'", "-">> \o <<c>> \o <<"'", NL>>
missing_long(flag) ==
    Argv(0) \o <<":", " ", "o", "p", "t", "i", "o", "n", " ", "'", "-", "-">> \o flag
            \o <<"'", " ", "r", "e", "q", "u", "i", "r", "e", "s", " ", "a", "n", " ",
                 "a", "r", "g", "u", "m", "e", "n", "t", NL>>
missing_short(c) ==
    Argv(0) \o <<":", " ", "o", "p", "t", "i", "o", "n", " ", "'", "-">> \o <<c>>
            \o <<"'", " ", "r", "e", "q", "u", "i", "r", "e", "s", " ", "a", "n", " ",
                 "a", "r", "g", "u", "m", "e", "n", "t", NL>>

Read(k, as) == [idx |-> k, as |-> as]

\* std_exit that sets the status and lets the outer loop go on
std_exit_goes_on(code) ==
    /\ pc' = "loop"
    /\ status' = code
    /\ i' = i + 1
    /\ j' = 0

\* std::exit(code): the process ends where it stands
std_exit(code) ==
    /\ pc' = "exited"
    /\ status' = code
    /\ UNCHANGED <<i, j>>

\* std::cerr << argv[0] << ... ; std::exit(1);
\* (arg is what the iteration has read of argv so far)
Fail(msg, arg) ==
    /\ err' = err \o msg
    /\ reads' = reads \o arg \o <<Read(0, "prog")>>
    /\ std_exit(1)
    /\ UNCHANGED <<calls, out>>

\* Invoke that reads a detached value as argv[i+1] and leaves i alone, so
\* that the outer loop meets the value again
Invoke_value_not_skipped(spec, optarg, arg, form, pos, nextPc, nextI, nextJ) ==
    /\ calls' = Append(calls, [spec |-> spec, optarg |-> optarg, tok |-> i,
                               pos |-> pos, form |-> form])
    /\ reads' = reads \o arg
                      \o (IF form = "detached" THEN <<Read(i + 1, "value")>> ELSE <<>>)
    /\ err' = err
    /\ IF flags[spec].action.kind = "help"
       THEN /\ out' = out \o print_help_page(flags[spec].action.usage)
            /\ std_exit(1)
       ELSE /\ out' = out
            /\ status' = status
            /\ pc' = nextPc
            /\ i' = (IF form = "detached" THEN nextI - 1 ELSE nextI)
            /\ j' = nextJ

\* spec->action(optarg), then the rest of the iteration: pc, i, j become
\* nextPc, nextI, nextJ unless the action ended the process
\* (arg is what the iteration has read of argv so far; a detached value is
\* read as argv[++i])
Invoke(spec, optarg, arg, form, pos, nextPc, nextI, nextJ) ==
    /\ calls' = Append(calls, [spec |-> spec, optarg |-> optarg, tok |-> i,
                               pos |-> pos, form |-> form])
    /\ reads' = reads \o arg
                      \o (IF form = "detached" THEN <<Read(i + 1, "value")>> ELSE <<>>)
    /\ err' = err
    /\ IF flags[spec].action.kind = "help"
       THEN /\ out' = out \o print_help_page(flags[spec].action.usage)
            /\ std_exit(1)
       ELSE /\ out' = out
            /\ status' = status
            /\ pc' = nextPc
            /\ i' = nextI
            /\ j' = nextJ

(***************************************************************************)
(* Initial state: a Parser with no flags, parse not called yet.            *)
(***************************************************************************)
Init ==
    /\ flags = <<>>
    /\ pc = "build"
    /\ argc = 0
    /\ argv = <<>>
    /\ i = 0
    /\ j = 0
    /\ calls = <<>>
    /\ reads = <<>>
    /\ out = <<>>
    /\ err = <<>>
    /\ status = 0

(***************************************************************************)
(* Parser::add                                                             *)
(***************************************************************************)
add(f) ==
    /\ pc = "build"
    /\ Len(flags) < MaxFlags
    /\ flags' = Append(flags, f)
    /\ UNCHANGED <<pc, argc, argv, i, j, calls, reads, out, err, status>>

Add == \E f \in FlagPool : add(f)

(***************************************************************************)
(* Parser::add_help                                                        *)
(***************************************************************************)
add_help(usage) ==
    add(FlagNoArg("h", <<"h", "e", "l", "p">>,
                  <<"P", "r", "i", "n", "t", " ", "h", "e", "l", "p">>,
                  HelpAction(usage)))

AddHelp == \E usage \in Usages : add_help(usage)

(***************************************************************************)
(* Parser::parse: entry, int i = 1                                         *)
(***************************************************************************)
Parse ==
    /\ pc = "build"
    /\ \E args \in ArgLists :
        /\ argv' = args
        /\ argc' = Len(args)
    /\ pc' = "loop"
    /\ i' = 1
    /\ UNCHANGED <<flags, j, calls, reads, out, err, status>>

(***************************************************************************)
(* One iteration of the outer loop on a long option token                  *)
(***************************************************************************)
ParseLongToken ==
    /\ pc = "loop"
    /\ i < argc
    /\ is_long_token(Argv(i))
    /\ UNCHANGED <<flags, argc, argv>>
    /\ LET arg == Argv(i)
           rd == <<Read(i, "token")>>
           flag == long_flag(arg)
           spec == find_if_long(flag)
       IN IF spec = End
          THEN Fail(unknown_long(flag), rd)
          ELSE IF flags[spec].expects_value
               THEN IF contains(arg, "=")
                    THEN LET optarg == long_optarg(arg)
                         IN IF no_optarg(optarg)
                            THEN Fail(missing_long(flag), rd)
                            ELSE Invoke(spec, optarg, rd, "attached", -1, "loop", i + 1, j)
                    ELSE IF at_last_arg
                         THEN Fail(missing_long(flag), rd)
                         ELSE Invoke(spec, Argv(i + 1), rd, "detached", -1, "loop", i + 2, j)
               ELSE Invoke(spec, <<>>, rd, "none", -1, "loop", i + 1, j)

(***************************************************************************)
(* The outer loop reaches a short option token: size_t j = 0               *)
(***************************************************************************)
ParseShortToken ==
    /\ pc = "loop"
    /\ i < argc
    /\ is_short_token(Argv(i))
    /\ pc' = "short"
    /\ j' = 0
    /\ reads' = Append(reads, Read(i, "token"))
    /\ UNCHANGED <<flags, argc, argv, i, calls, out, err, status>>

\* ParseShortChar that leaves the inner loop after any flag, also one
\* without value
ParseShortChar_one_flag ==
    /\ pc = "short"
    /\ UNCHANGED <<flags, argc, argv>>
    /\ LET flag == substr(Argv(i), 1, npos)
           c == flag[j + 1]
           spec == find_if_short(c)
           last == (j = Len(flag) - 1)
       IN IF spec = End
          THEN Fail(unknown_short(c), <<>>)
          ELSE IF flags[spec].expects_value
               THEN IF ~last
                    THEN Invoke(spec, substr(flag, j + 1, npos), <<>>, "attached", j,
                                "loop", i + 1, 0)
                    ELSE IF at_last_arg
                         THEN Fail(missing_short(c), <<>>)
                         ELSE Invoke(spec, Argv(i + 1), <<>>, "detached", j,
                                     "loop", i + 2, 0)
               ELSE Invoke(spec, <<>>, <<>>, "none", j, "loop", i + 1, 0)

(***************************************************************************)
(* One iteration of the inner loop, on character j of the token; after    *)
(* the last character, or after the break, the outer loop goes on          *)
(***************************************************************************)
ParseShortChar ==
    /\ pc = "short"
    /\ UNCHANGED <<flags, argc, argv>>
    /\ LET flag == substr(Argv(i), 1, npos)
           c == flag[j + 1]
           spec == find_if_short(c)
           last == (j = Len(flag) - 1)
       IN IF spec = End
          THEN Fail(unknown_short(c), <<>>)
          ELSE IF flags[spec].expects_value
               THEN IF ~last
                    THEN Invoke(spec, substr(flag, j + 1, npos), <<>>, "attached", j,
                                "loop", i + 1, 0)
                    ELSE IF at_last_arg
                         THEN Fail(missing_short(c), <<>>)
                         ELSE Invoke(spec, Argv(i + 1), <<>>, "detached", j,
                                     "loop", i + 2, 0)
               ELSE IF ~last
                    THEN Invoke(spec, <<>>, <<>>, "none", j, "short", i, j + 1)
                    ELSE Invoke(spec, <<>>, <<>>, "none", j, "loop", i + 1, 0)

(***************************************************************************)
(* One iteration of the outer loop on any other token: nothing is done     *)
(***************************************************************************)
ParseOtherToken ==
    /\ pc = "loop"
    /\ i < argc
    /\ ~is_long_token(Argv(i))
    /\ ~is_short_token(Argv(i))
    /\ i' = i + 1
    /\ reads' = Append(reads, Read(i, "token"))
    /\ UNCHANGED <<flags, pc, argc, argv, j, calls, out, err, status>>

(***************************************************************************)
(* The outer loop ends: parse returns                                      *)
(***************************************************************************)
ParseReturn ==
    /\ pc = "loop"
    /\ i >= argc
    /\ pc' = "returned"
    /\ UNCHANGED <<flags, argc, argv, i, j, calls, reads, out, err, status>>

Next ==
    \/ Add
    \/ AddHelp
    \/ Parse
    \/ ParseLongToken
    \/ ParseShortToken
    \/ ParseShortChar
    \/ ParseOtherToken
    \/ ParseReturn

Spec == Init /\ [][Next]_vars

(***************************************************************************)
(* Vocabulary of the properties, written from the words of the             *)
(* specification and not from the operators that model the code.           *)
(***************************************************************************)
Parsing == pc \in {"loop", "short", "returned", "exited"}

\* a long option token: length >= 3, starting with "--"
LongToken(t) == Len(t) >= 3 /\ t[1] = "-" /\ t[2] = "-"

\* a short option token: length >= 2, starting with "-", not a long option token
ShortToken(t) == Len(t) >= 2 /\ t[1] = "-" /\ ~LongToken(t)

\* the characters of a short option token after the leading "-"
ShortChars(t) == [k \in 1..(Len(t) - 1) |-> t[k + 1]]

HasEq(t) == \E k \in 1..Len(t) : t[k] = "="

\* the position in t of the first "=" at or after position n, or Len(t) + 1
RECURSIVE FirstEq(_, _)
FirstEq(t, n) == IF n > Len(t) \/ t[n] = "=" THEN n ELSE FirstEq(t, n + 1)

\* the identifier of a long option token: the text after "--" up to, not
\* including, the first "="
Identifier(t) == SubSeq(t, 3, FirstEq(t, 3) - 1)

\* the text of a long option token after its first "="
Suffix(t) == SubSeq(t, FirstEq(t, 3) + 1, Len(t))

\* spec k is the first registered spec with long name id / short name c
ResolvesLong(k, id) ==
    /\ k \in 1..Len(flags)
    /\ flags[k].long_name = id
    /\ \A m \in 1..(k - 1) : flags[m].long_name # id

ResolvesShort(k, c) ==
    /\ k \in 1..Len(flags)
    /\ flags[k].short_name = c
    /\ \A m \in 1..(k - 1) : flags[m].short_name # c

\* the invocations of callbacks made for the token at position p, in order
CallsAt(p) == SelectSeq(calls, LAMBDA c : c.tok = p)

WasRead(p, as) == \E n \in 1..Len(reads) : reads[n] = [idx |-> p, as |-> as]

\* the step ends the process with status 1 after the diagnostic msg, and
\* invokes no callback
Dies(msg) ==
    /\ pc' = "exited"
    /\ status' = 1
    /\ err' = err \o msg
    /\ calls' = calls
    /\ out' = out

\* the step invokes the callback of spec k once, with value v, and parse
\* goes on with the token at position next
Delivers(k, v, next) ==
    /\ Len(calls') = Len(calls) + 1
    /\ SubSeq(calls', 1, Len(calls)) = calls
    /\ calls'[Len(calls')].spec = k
    /\ calls'[Len(calls')].optarg = v
    /\ pc' = "loop"
    /\ i' = next
    /\ err' = err

(***************************************************************************)
(* C1.  A long option token whose identifier is the long name of no        *)
(* registered spec, and a character of a short option token that is the    *)
(* short name of no registered spec, end parse with the unknown option     *)
(* diagnostic and exit status 1 without invoking a callback; a spec        *)
(* registered without a long name is never dispatched by a long option     *)
(* token, a spec registered without a short name never by a short option   *)
(* character.                                                              *)
(***************************************************************************)
HasLongName(f) == f.long_name # <<>>
HasShortName(f) == f.short_name # NUL

C1_UnknownLong ==
    (/\ pc = "loop" /\ i < argc
     /\ LongToken(Argv(i))
     /\ \A k \in 1..Len(flags) :
            ~(HasLongName(flags[k]) /\ flags[k].long_name = Identifier(Argv(i))))
    => Dies(unknown_long(Identifier(Argv(i))))

C1_UnknownShortChar ==
    (/\ pc = "short"
     /\ \A k \in 1..Len(flags) :
            ~(HasShortName(flags[k]) /\ flags[k].short_name = ShortChars(Argv(i))[j + 1]))
    => Dies(unknown_short(ShortChars(Argv(i))[j + 1]))

C1_DispatchedByName ==
    \A n \in 1..Len(calls) :
        IF calls[n].pos = -1
        THEN HasLongName(flags[calls[n].spec])
        ELSE HasShortName(flags[calls[n].spec])

\* C1: unknown identifiers end parse without a callback; unnamed specs are never dispatched
C1_UnknownOption ==
    /\ [][C1_UnknownLong /\ C1_UnknownShortChar]_vars
    /\ [](C1_DispatchedByName)

(***************************************************************************)
(* C2.  When the spec resolved for an option expects a value and none is   *)
(* available (the long token has "=" with nothing after it; the long token *)
(* has no "=" and is the last argument; the short character is the last    *)
(* of its token and the token is the last argument), parse ends with the   *)
(* missing argument diagnostic and exit status 1 and the callback is not   *)
(* invoked; "--name=" never invokes a callback with an empty string.       *)
(***************************************************************************)
C2_MissingLong ==
    \A k \in 1..Len(flags) :
        (/\ pc = "loop" /\ i < argc
         /\ LongToken(Argv(i))
         /\ ResolvesLong(k, Identifier(Argv(i)))
         /\ flags[k].expects_value
         /\ \/ HasEq(Argv(i)) /\ Suffix(Argv(i)) = <<>>
            \/ ~HasEq(Argv(i)) /\ i = argc - 1)
        => Dies(missing_long(Identifier(Argv(i))))

C2_MissingShort ==
    \A k \in 1..Len(flags) :
        (/\ pc = "short"
         /\ ResolvesShort(k, ShortChars(Argv(i))[j + 1])
         /\ flags[k].expects_value
         /\ j + 1 = Len(ShortChars(Argv(i)))
         /\ i = argc - 1)
        => Dies(missing_short(ShortChars(Argv(i))[j + 1]))

C2_NoEmptyAttached ==
    \A n \in 1..Len(calls) :
        (/\ calls[n].pos = -1
         /\ flags[calls[n].spec].expects_value
         /\ HasEq(Argv(calls[n].tok)))
        => calls[n].optarg # <<>>

\* C2: a missing value ends parse without the callback; no empty attached value
C2_MissingArgument ==
    /\ [][C2_MissingLong /\ C2_MissingShort]_vars
    /\ [](C2_NoEmptyAttached)

\* "--name=" was met with name resolved to a spec that expects a value
C2_Witness ==
    /\ pc = "exited"
    /\ Argv(i) = <<"-", "-">> \o LongName \o <<"=">>
    /\ \E k \in 1..Len(flags) : ResolvesLong(k, LongName) /\ flags[k].expects_value
    /\ err = missing_long(LongName)

(***************************************************************************)
(* C3.  For an option resolved to a spec that expects a value, the         *)
(* attached and the detached form deliver the same value to the same       *)
(* callback: "--name=V" and "--name" "V" each invoke the callback once     *)
(* with V, "-xV" and "-x" "V" each invoke the callback once with V, for    *)
(* every non-empty V (also with "=" in it or "-" in front).                *)
(***************************************************************************)
C3_LongAttached ==
    \A k \in 1..Len(flags) :
        (/\ pc = "loop" /\ i < argc
         /\ LongToken(Argv(i))
         /\ ResolvesLong(k, Identifier(Argv(i)))
         /\ flags[k].expects_value
         /\ HasEq(Argv(i)) /\ Suffix(Argv(i)) # <<>>)
        => Delivers(k, Suffix(Argv(i)), i + 1)

C3_LongDetached ==
    \A k \in 1..Len(flags) :
        (/\ pc = "loop" /\ i < argc - 1
         /\ LongToken(Argv(i))
         /\ ResolvesLong(k, Identifier(Argv(i)))
         /\ flags[k].expects_value
         /\ ~HasEq(Argv(i)))
        => Delivers(k, Argv(i + 1), i + 2)

C3_ShortAttached ==
    \A k \in 1..Len(flags) :
        (/\ pc = "short"
         /\ ResolvesShort(k, ShortChars(Argv(i))[j + 1])
         /\ flags[k].expects_value
         /\ j + 1 < Len(ShortChars(Argv(i))))
        => Delivers(k, [m \in 1..(Len(Argv(i)) - j - 2) |-> Argv(i)[j + 2 + m]], i + 1)

C3_ShortDetached ==
    \A k \in 1..Len(flags) :
        (/\ pc = "short" /\ i < argc - 1
         /\ ResolvesShort(k, ShortChars(Argv(i))[j + 1])
         /\ flags[k].expects_value
         /\ j + 1 = Len(ShortChars(Argv(i))))
        => Delivers(k, Argv(i + 1), i + 2)

\* C3: the attached and the detached form deliver the same value to the same callback
C3_AttachedDetachedAgree ==
    [][C3_LongAttached /\ C3_LongDetached /\ C3_ShortAttached /\ C3_ShortDetached]_vars

\* "--name" "-=" has delivered "-=", the value that "--name=-=" carries
C3_Witness ==
    /\ argc = 3
    /\ Argv(1) = <<"-", "-">> \o LongName
    /\ Argv(2) = <<"-", "=">>
    /\ Len(calls) = 1
    /\ calls[1].optarg = Suffix(<<"-", "-">> \o LongName \o <<"=", "-", "=">>)
    /\ flags[calls[1].spec].expects_value
    /\ pc = "returned"

(***************************************************************************)
(* C4.  As stated: for a short option token whose characters all resolve   *)
(* to specs that expect no value, parse invokes for each character, from   *)
(* left to right, the callback of the spec resolved for it, once, with an  *)
(* empty argument, nothing else for the token, and takes no following      *)
(* token as a value.                                                       *)
(***************************************************************************)
IsHelp(k) == flags[k].action.kind = "help"

AllNoValue(t) ==
    \A m \in 1..Len(ShortChars(t)) :
        \E k \in 1..Len(flags) :
            ResolvesShort(k, ShortChars(t)[m]) /\ ~flags[k].expects_value

\* parse is done with the token at position p
Processed(p) == WasRead(p, "token") /\ (i > p \/ pc = "exited")

\* the callbacks made for the token at p are those of its first n characters,
\* in order, each with an empty argument, and the next token is no value
InvokedInOrder(p, n) ==
    LET made == CallsAt(p)
    IN /\ Len(made) = n
       /\ \A m \in 1..n :
            /\ ResolvesShort(made[m].spec, ShortChars(Argv(p))[m])
            /\ made[m].optarg = <<>>
            /\ made[m].pos = m - 1
       /\ ~WasRead(p + 1, "value")

\* C4 (as stated): every flag of a combined short token is invoked once, in order
C4_CombinedFlags ==
    \A p \in 1..(argc - 1) :
        (Processed(p) /\ ShortToken(Argv(p)) /\ AllNoValue(Argv(p)))
        => InvokedInOrder(p, Len(ShortChars(Argv(p))))

(***************************************************************************)
(* C4, amended.  The same, for the characters up to and including the      *)
(* first one that resolves to the help flag of add_help, whose callback    *)
(* ends the process; for all characters when none does.                    *)
(***************************************************************************)
UpToHelp(t) ==
    LET cs == ShortChars(t)
        helps == { m \in 1..Len(cs) :
                     \E k \in 1..Len(flags) : ResolvesShort(k, cs[m]) /\ IsHelp(k) }
    IN IF helps = {} THEN Len(cs)
       ELSE CHOOSE m \in helps : \A n \in helps : m <= n

\* C4 (amended): every flag of a combined short token up to the help flag is invoked once, in order
C4_CombinedFlagsUntilHelp ==
    \A p \in 1..(argc - 1) :
        (Processed(p) /\ ShortToken(Argv(p)) /\ AllNoValue(Argv(p)))
        => InvokedInOrder(p, UpToHelp(Argv(p)))

\* "-hb" has been parsed with h and b resolved to two specs without value
C4_Witness ==
    /\ pc = "returned"
    /\ argc = 2
    /\ Argv(1) = <<"-", "h", "b">>
    /\ AllNoValue(Argv(1))
    /\ Len(calls) = 2
    /\ calls[1].spec # calls[2].spec

(***************************************************************************)
(* C5.  Every terminating condition (unknown option, missing argument,     *)
(* the help flag) ends the process at once with exit status 1: the         *)
(* callbacks of the options before it, in the argument list and in the     *)
(* same short token, have been invoked in order and stay invoked, and no   *)
(* callback is invoked for anything after it.                              *)
(***************************************************************************)
LastCall == calls[Len(calls)]

HelpInvoked == calls # <<>> /\ IsHelp(LastCall.spec)

\* the position inside the token at i where parse stands: -1 in a long token
Here == IF ShortToken(Argv(i)) THEN j ELSE -1

C5_AtExit ==
    pc = "exited" =>
        /\ status = 1
        /\ \A p \in 1..(i - 1) :
              (WasRead(p, "token") /\ (LongToken(Argv(p)) \/ ShortToken(Argv(p))))
              => CallsAt(p) # <<>>
        /\ \A m \in 0..(Here - 1) : \E n \in 1..Len(calls) :
              calls[n].tok = i /\ calls[n].pos = m
        /\ \A n \in 1..(Len(calls) - 1) :
              \/ calls[n].tok < calls[n + 1].tok
              \/ calls[n].tok = calls[n + 1].tok /\ calls[n].pos < calls[n + 1].pos
        /\ \A n \in 1..Len(calls) :
              \/ calls[n].tok < i
              \/ calls[n].tok = i /\ calls[n].pos < Here
              \/ n = Len(calls) /\ HelpInvoked /\ calls[n].tok = i /\ calls[n].pos = Here
        /\ (err # <<>>) # HelpInvoked

C5_Step ==
    /\ pc # "exited"
    /\ Len(calls') >= Len(calls) /\ SubSeq(calls', 1, Len(calls)) = calls
    /\ (err' # err \/ (calls' # calls /\ IsHelp(calls'[Len(calls')].spec)))
       => (pc' = "exited" /\ status' = 1)

\* C5: an exit is immediate, with status 1, after the callbacks before it and none after it
C5_ExitIsImmediate ==
    /\ [](C5_AtExit)
    /\ [][C5_Step]_vars

\* "-hb" with h registered and b not: h's callback was invoked, then the
\* process ended, with one more argument left
C5_Witness ==
    /\ pc = "exited"
    /\ argc = 3
    /\ i = 1
    /\ Argv(1) = <<"-", "h", "b">>
    /\ Len(calls) = 1
    /\ err = unknown_short("b")

(***************************************************************************)
(* C6.  add appends without deduplication and lookup is first match in     *)
(* registration order: every callback invoked for an identifier is that    *)
(* of the first registered spec with that identifier, and the value it     *)
(* gets is decided by that spec's expects_value.                           *)
(***************************************************************************)
C6_FirstRegistered ==
    \A n \in 1..Len(calls) :
        LET c == calls[n]
            t == Argv(c.tok)
        IN /\ IF c.pos = -1
              THEN ResolvesLong(c.spec, Identifier(t))
              ELSE ResolvesShort(c.spec, ShortChars(t)[c.pos + 1])
           /\ IF ~flags[c.spec].expects_value
              THEN c.optarg = <<>> /\ c.form = "none"
              ELSE /\ c.form # "none"
                   /\ IF c.pos = -1
                      THEN c.optarg = (IF HasEq(t) THEN Suffix(t) ELSE Argv(c.tok + 1))
                      ELSE c.optarg = (IF c.pos + 2 < Len(t)
                                       THEN SubSeq(t, c.pos + 3, Len(t))
                                       ELSE Argv(c.tok + 1))

C6_Appends ==
    flags' # flags =>
        /\ Len(flags') = Len(flags) + 1
        /\ SubSeq(flags', 1, Len(flags)) = flags

\* C6: add appends, and the first registered spec of an identifier is the one dispatched
C6_FirstMatchWins ==
    /\ [](C6_FirstRegistered)
    /\ [][C6_Appends]_vars

\* two specs share a long name and differ in expects_value; the name was
\* dispatched to the first
C6_Witness ==
    /\ Len(flags) = 2
    /\ flags[1].long_name = LongName /\ flags[2].long_name = LongName
    /\ flags[1].expects_value # flags[2].expects_value
    /\ \E n \in 1..Len(calls) : calls[n].pos = -1 /\ calls[n].spec = 1
    /\ pc = "returned"

\* a user spec named -h/--help was registered before add_help; "-hb" went
\* to the user spec and parse returned
C6_WitnessHelpShadowed ==
    /\ Len(flags) = 2
    /\ ~IsHelp(1) /\ IsHelp(2)
    /\ flags[1].short_name = "h"
    /\ Argv(1) = <<"-", "h", "b">>
    /\ calls # <<>> /\ calls[1].spec = 1
    /\ pc = "exited" /\ err = unknown_short("b")

(***************************************************************************)
(* C7.  As stated: print_help_page writes "Usage: <usage>" and then one    *)
(* entry per registered spec in registration order; the left-hand column   *)
(* of an entry is two spaces, "-<short>" and/or "--<long>" joined by ", "  *)
(* when both are there, and " ARG" if the spec expects a value; a column   *)
(* of at most 32 characters is padded to 32 and followed by one space and  *)
(* the description, a longer one stands alone on its line and the          *)
(* description follows on the next line behind 32 spaces.                  *)
(***************************************************************************)
RECURSIVE Join(_)
Join(ss) == IF ss = <<>> THEN <<>> ELSE Head(ss) \o Join(Tail(ss))

Blank(n) == [k \in 1..n |-> " "]

LeftColumn(f) ==
    LET short == <<"-", f.short_name>>
        long == <<"-", "-">> \o f.long_name
        names == IF HasShortName(f) /\ HasLongName(f) THEN short \o <<",", " ">> \o long
                 ELSE IF HasShortName(f) THEN short
                 ELSE IF HasLongName(f) THEN long
                 ELSE <<>>
    IN <<" ", " ">> \o names \o (IF f.expects_value THEN <<" ", "A", "R", "G">> ELSE <<>>)

\* the entry of f, with the description of a long entry behind indent spaces
Entry(f, indent) ==
    LET left == LeftColumn(f)
    IN IF Len(left) <= 32
       THEN Join(<< left, Blank(32 - Len(left)), <<" ">>, f.description, <<NL>> >>)
       ELSE Join(<< left, <<NL>>, Blank(indent), f.description, <<NL>> >>)

HelpPage(usage, indent) ==
    Join(<< <<"U", "s", "a", "g", "e", ":", " ">>, usage, <<NL>> >>)
    \o Join([k \in 1..Len(flags) |-> Entry(flags[k], indent)])

\* C7 (as stated): the help page, with the description of a long entry behind 32 spaces
C7_HelpPage ==
    IF pc = "exited" /\ HelpInvoked
    THEN out = HelpPage(flags[LastCall.spec].action.usage, 32)
    ELSE out = <<>>

(***************************************************************************)
(* C7, amended.  The same, but the description of an entry whose column    *)
(* is longer than 32 characters follows on the next line behind 33         *)
(* spaces: the 32 of the threshold and the separating space, the column    *)
(* in which the descriptions of the other entries start.                   *)
(***************************************************************************)
\* C7 (amended): the help page, with the description of a long entry behind 33 spaces
C7_HelpPageIndent33 ==
    IF pc = "exited" /\ HelpInvoked
    THEN out = HelpPage(flags[LastCall.spec].action.usage, 33)
    ELSE out = <<>>

\* the help page was printed for a spec with a column of more than 32
\* characters, registered before the help flag
C7_Witness ==
    /\ pc = "exited"
    /\ HelpInvoked
    /\ Len(flags) = 2
    /\ Len(LeftColumn(flags[1])) > 32
    /\ IsHelp(2)
    /\ out # <<>>

(***************************************************************************)
(* C8.  A token that is neither a long option token (length >= 3,          *)
(* starting with "--") nor a short option token (length >= 2, starting     *)
(* with a single "-"), such as the empty token, "-", "--" or a token not   *)
(* starting with "-", is skipped when parse meets it: no callback, no      *)
(* diagnostic, no end of the process.                                      *)
(***************************************************************************)
SingleDashToken(t) == Len(t) >= 2 /\ t[1] = "-" /\ t[2] # "-"

\* C8: tokens that are neither long nor single-dash short option tokens are skipped
C8_OtherTokensSkipped ==
    \A p \in 1..(argc - 1) :
        (WasRead(p, "token") /\ ~LongToken(Argv(p)) /\ ~SingleDashToken(Argv(p)))
        => /\ CallsAt(p) = <<>>
           /\ pc = "exited" => i # p

(***************************************************************************)
(* C9.  Text taken as the value of an option is never read as an option:   *)
(* a detached value is the whole next token, which the outer loop skips;   *)
(* after an attached value of a short option no further character of the   *)
(* token is looked up and the next token is not taken.                     *)
(***************************************************************************)
\* C9: a consumed value is never looked up as an option
C9_ValuesAreNotOptions ==
    \A n \in 1..Len(calls) :
        LET c == calls[n]
        IN /\ c.form = "detached" =>
                /\ c.optarg = Argv(c.tok + 1)
                /\ WasRead(c.tok + 1, "value")
                /\ ~WasRead(c.tok + 1, "token")
                /\ CallsAt(c.tok + 1) = <<>>
                /\ i # c.tok + 1
           /\ (c.form = "attached" /\ c.pos >= 0) =>
                /\ c.optarg = SubSeq(Argv(c.tok), c.pos + 3, Len(Argv(c.tok)))
                /\ \A m \in 1..Len(calls) : calls[m].tok = c.tok => calls[m].pos <= c.pos
                /\ ~WasRead(c.tok + 1, "value")
                /\ i # c.tok

\* "--name" took "-ba" as its value while a is a registered short name
C9_Witness ==
    /\ pc = "returned"
    /\ argc = 3
    /\ Argv(1) = <<"-", "-">> \o LongName
    /\ Argv(2) = <<"-", "b", "a">>
    /\ calls = << [spec |-> 1, optarg |-> <<"-", "b", "a">>, tok |-> 1, pos |-> -1,
                   form |-> "detached"] >>
    /\ flags[1].short_name = "a"

(***************************************************************************)
(* C10.  During parse the argument index stays in bounds and only moves    *)
(* forward: argv is read at positions 0..argc-1 only, position 0 only for  *)
(* the prefix of a diagnostic, every other position at most once (as a     *)
(* token or as a value), the character index is below the length of the    *)
(* short option token, and there are at most argc-1 outer iterations.      *)
(***************************************************************************)
C10_InBounds ==
    Parsing =>
        /\ argc >= 1
        /\ 1 <= i /\ i <= argc
        /\ \A n \in 1..Len(reads) :
              /\ 0 <= reads[n].idx /\ reads[n].idx <= argc - 1
              /\ (reads[n].idx = 0) <=> (reads[n].as = "prog")
              /\ reads[n].idx # 0 =>
                    \A m \in 1..Len(reads) : reads[m].idx = reads[n].idx => m = n
        /\ pc = "short" => (i < argc /\ 0 <= j /\ j < Len(Argv(i)) - 1)
        /\ Len(SelectSeq(reads, LAMBDA r : r.as = "token")) <= argc - 1
        /\ pc = "returned" => i = argc

C10_Forward == Parsing => (i' >= i /\ i' <= i + 2)

\* C10: the argument and character indices stay in bounds and move forward
C10_IndexStaysInBounds ==
    /\ [](C10_InBounds)
    /\ [][C10_Forward]_vars

\* the last but one argument took the last one as its value: i is argc
C10_Witness ==
    /\ pc = "loop"
    /\ argc = 3
    /\ i = argc
    /\ WasRead(2, "value")

====
